---- MODULE Spec2Model ----
(***************************************************************************)
(* XGBPipeline and XGBOptuna of                                            *)
(* sleep_analysis/classification/ml_algorithms/xgboost_classifier.py.      *)
(*                                                                         *)
(* Spec      the hyperparameter search: one process after another calls    *)
(*           XGBOptuna.optimize on the same persisted optuna study; a      *)
(*           process may be killed between any two steps.                  *)
(* SpecLive  Spec with the fairness of a call that is not killed.          *)
(* SpecPipe  a template XGBPipeline and clones of it, cloned, fitted and   *)
(*           run in any order, the fits overlapping.                       *)
(* SpecConf  one XGBPipeline whose parameters are set, fitted and run.     *)
(* SpecSplit the folds cross_validate(cv=5) draws from a dataset.          *)
(* SpecKey   the study two XGBOptuna objects resolve to.                   *)
(*                                                                         *)
(* Numbers with a fraction are kept in fixed point: hyperparameters that   *)
(* are floats in thousandths (learning_rate 0.005 is 5), scores (the       *)
(* Matthews correlation coefficient test_mcc) in hundredths.               *)
(***************************************************************************)
EXTENDS Integers, Sequences, FiniteSets, TLC

VARIABLES
    store,                \* the persisted study: the sequence of trial records in the sqlite file
    pc,                   \* where the running call of XGBOptuna.optimize stands
    self,                 \* the XGBOptuna object: pipeline (the template), modality, classification_type
    heap,                 \* the classifier objects alive in the process: reference -> XGBClassifier
    next_ref,             \* the reference the next classifier object gets
    loaded,               \* what create_study loaded: the log as it was when this call began
    trial,                \* number of the trial this call is running (0: none yet)
    n_run,                \* trials study.optimize has finished in this call
    ret,                  \* what objective(trial) came to: a value, nan or an exception
    prune_signal,         \* the pruner called for a prune of the running trial during a fold's fit
    fold_refs,            \* the classifier objects fitted inside cross-validation folds in this call
    fold_fits,            \* the fit options the classifiers of the last cross-validation's folds trained with
    best_trial,           \* the trial study.best_params read, None before
    optimized_pipeline_,  \* self.optimized_pipeline_, None until the refit has returned
    error,                \* the exception XGBOptuna.optimize raised to its caller, None if none
    pipes,                \* SpecPipe: the pipelines at hand, by number (0 is the template)
    in_fit,               \* SpecPipe: per pipeline, the classifier a running self_optimize trains
    last,                 \* SpecPipe: the pipeline of the last run and what it raised, None after other steps
    seen,                 \* SpecPipe: per pipeline, the pipeline and its classifier as its own last operation left them
    fit_ok,               \* SpecPipe: the pipelines with a fit that succeeded behind them
    outcome,              \* SpecPipe, SpecConf: the last self_optimize or set_params and what it raised, None after other steps
    opts,                 \* SpecKey: two XGBOptuna objects and the study each resolves to
    units,                \* SpecSplit: the dataset given to cross_validate, a sequence of datapoints
    splits                \* SpecSplit: the folds cross_validate has drawn so far, None before the split

\* the state of the search
svars == <<store, pc, self, loaded, trial, n_run, ret, prune_signal, fold_refs, fold_fits,
           best_trial, optimized_pipeline_, error>>

\* the state of the pipelines of SpecPipe
pvars == <<pipes, in_fit, last, seen, fit_ok, outcome>>

\* the state of the split of SpecSplit
cvars == <<units, splits>>

vars == <<svars, heap, next_ref, pvars, opts, cvars>>

----------------------------------------------------------------------------
(* Bounds of the model *)

\* the persisted log holds at most this many trials: no new process starts beyond it
MaxTrials == 3

\* subjects (datapoints) of the dataset
NSubjects == 5

\* SpecPipe: pipelines at hand, the template among them
MaxPipes == 3

\* SpecPipe: classifier objects made in all
MaxRefs == 5

\* SpecKey: length of a modality list
MaxModalities == 2

\* SpecSplit: datapoints there are to make a dataset of
MaxUnits == 7

----------------------------------------------------------------------------
(* Values *)

None == <<>>
Some(x) == <<x>>
The(o) == o[1]
Elements(list) == { list[i] : i \in DOMAIN list }

\* cross_validate(cv=5)
cv == 5

\* study.optimize(objective, n_trials=1)
n_trials == 1

\* the direction mistaken
direction_minimize == "minimize"

\* create_study(direction="maximize")
direction == "maximize"

\* optimize_params={"early_stopping_rounds": 10, ...}
early_stopping_rounds == 10

\* the index of the dataset: one datapoint per subject
Dataset == 1..NSubjects

\* the label table of get_concat_dataset: one column per classification mode
LabelColumns == {"sleep", "5stage"}

ClassificationTypes == {"binary", "5stage"}

\* the defaults of XGBPipeline.__init__
DefaultParams ==
    [n_estimators |-> 100, max_depth |-> 10, reg_alpha |-> 0, reg_lambda |-> 0,
     min_child_weight |-> 0, gamma |-> 0, learning_rate |-> 5, colsample_bytree |-> 100]

ParamNames == DOMAIN DefaultParams

\* the ranges of trial.suggest_int / trial.suggest_float in objective
SearchSpace ==
    [n_estimators     |-> [low |-> 200, high |-> 400],
     max_depth        |-> [low |-> 5,   high |-> 25],
     reg_alpha        |-> [low |-> 0,   high |-> 25],
     reg_lambda       |-> [low |-> 0,   high |-> 25],
     min_child_weight |-> [low |-> 0,   high |-> 25],
     gamma            |-> [low |-> 5,   high |-> 25],
     learning_rate    |-> [low |-> 10,  high |-> 100],
     colsample_bytree |-> [low |-> 100, high |-> 1000]]

\* the configurations the sampler is let to propose: the two corners of the search space
Suggestions ==
    { [n \in ParamNames |-> SearchSpace[n].low], [n \in ParamNames |-> SearchSpace[n].high] }

\* the configurations a caller gives to set_params: those of the sampler, the defaults
\* of __init__ and one more, the last two outside the ranges of the search space
Configurations == Suggestions \cup {DefaultParams, [DefaultParams EXCEPT !.n_estimators = 500]}

InRange(params) ==
    \A n \in ParamNames : SearchSpace[n].low <= params[n] /\ params[n] <= SearchSpace[n].high

\* the values a fold's test_mcc takes in the model
Scores == {0, 100}

\* a fold's outcome: its fit raises ("raise"), its score is nan ("nan"), or a score
Score(v) == [kind |-> "score", v |-> v]

\* the outcomes of the cv folds of one trial that the model goes through: all folds
\* score alike, the scores differ, one score is nan, one fold's fit raises
FoldVectors ==
    { [k \in 1..cv |-> Score(100)],
      [k \in 1..cv |-> IF k \in {2, 4} THEN Score(0) ELSE Score(100)],
      [k \in 1..cv |-> IF k = 3 THEN [kind |-> "nan", v |-> 0] ELSE Score(100)],
      [k \in 1..cv |-> IF k = 2 THEN [kind |-> "raise", v |-> 0] ELSE Score(0)] }

\* the folds during whose fit the pruner may call for a prune (0: none)
PruneAt == {0, 1, cv}

----------------------------------------------------------------------------
(* Classifier objects and the heap.  A machine state m is [heap, next]: the  *)
(* classifier objects by reference and the next free reference.              *)

\* XGBClassifier(...): an estimator with its constructor parameters, not fitted
XGBClassifier(objective, params, n_jobs) ==
    [objective |-> objective, params |-> params, n_jobs |-> n_jobs, booster |-> None]

\* cf(XGBClassifier(n_jobs=-1)), the default classifier of XGBPipeline.__init__
DefaultClassifier == XGBClassifier("default", None, Some(-1))

\* a new object in the heap; its reference is m.next
New(m, cell) ==
    [heap |-> [r \in DOMAIN m.heap \cup {m.next} |-> IF r = m.next THEN cell ELSE m.heap[r]],
     next |-> m.next + 1]

\* sklearn.base.clone(classifier): a new estimator with the same parameters, not fitted
clone(m, ref) == New(m, [m.heap[ref] EXCEPT !.booster = None])

\* XGBPipeline.__init__: the fields of a pipeline
XGBPipeline(modality, params, classifier, classification_type) ==
    [modality |-> modality, params |-> params, classifier |-> classifier,
     classification_type |-> classification_type, classification_ |-> None]

\* a clone that shares the classifier object with its original
PipelineClone_shared(m, p) == [m |-> m, p |-> [p EXCEPT !.classification_ = None]]

\* pipeline.clone() of tpcp: a new pipeline of the same parameters; the classifier, a
\* parameter that is no tpcp object, is copied whole (copy.deepcopy), results are dropped
PipelineClone(m, p) ==
    [m |-> New(m, m.heap[p.classifier]),
     p |-> [p EXCEPT !.classifier = m.next, !.classification_ = None]]

\* set_params whose result is dropped: the pipeline keeps the parameters it had
set_params_dropped(p, params) == p

\* pipeline.set_params(**params): the hyperparameters are replaced
set_params(p, params) == [p EXCEPT !.params = params]

\* the parameters set on the template itself, no clone made
TempPipeline_in_place(m, template, params) ==
    [m |-> m, temp |-> set_params(template, params), template |-> set_params(template, params)]

\* self.pipeline.clone().set_params(**params): the pipeline objective and the refit work
\* with is a clone that gets the parameters; template is the template as the statement
\* leaves it
TempPipeline(m, template, params) ==
    LET c == PipelineClone(m, template)
    IN  [m |-> c.m, temp |-> set_params(c.p, params), template |-> template]

\* XGBPipeline._set_classifier_params: the pipeline's hyperparameters set on the classifier
_set_classifier_params(p, cell) == [cell EXCEPT !.params = Some(p.params)]

\* the column named after the classification type, whatever the type
TargetColumn_of_type(p) == p.classification_type

\* the label column self_optimize trains on
TargetColumn(p) == IF p.classification_type = "binary" THEN "sleep" ELSE p.classification_type

\* the keyword arguments self_optimize hands to c.fit: none, **kwargs is not used
FitOptions(kwargs) == [early_stopping_rounds |-> None, callbacks |-> {}]

\* XGBClassifier.fit(X, y, **options) on cell: env.fit is whether training succeeds,
\* env.prune whether the pruner calls for a prune at one of the boosting rounds; only
\* a callback among the options is asked at the rounds
Fit(cell, data, target, options, env) ==
    IF env.prune /\ "pruning_callback" \in options.callbacks
    THEN [raised |-> Some("TrialPruned"), cell |-> cell]
    ELSE IF env.fit = "raise"
    THEN [raised |-> Some("TrainingError"), cell |-> cell]
    ELSE [raised |-> None,
          cell |-> [cell EXCEPT !.booster =
                       Some([data |-> data, target |-> target, params |-> cell.params,
                             early_stopping_rounds |-> options.early_stopping_rounds,
                             callbacks |-> options.callbacks])]]

\* XGBPipeline.self_optimize, up to the training: a clone of self.classifier with
\* the pipeline's hyperparameters, a new object c
PrepareClassifier(m, p) ==
    LET m1 == clone(m, p.classifier)
    IN  [m |-> [m1 EXCEPT !.heap[m.next] = _set_classifier_params(p, m1.heap[m.next])],
         c |-> m.next]

\* self.classifier set to c before the training is known to have succeeded
TrainClassifier_assigned_first(m, p, c, dataset, kwargs, env) ==
    IF TargetColumn(p) \notin LabelColumns
    THEN [m |-> m, p |-> [p EXCEPT !.classifier = c], raised |-> Some("KeyError")]
    ELSE LET f == Fit(m.heap[c], dataset, TargetColumn(p), FitOptions(kwargs), env)
         IN  [m |-> [m EXCEPT !.heap[c] = f.cell],
              p |-> [p EXCEPT !.classifier = c],
              raised |-> f.raised]

\* XGBPipeline.self_optimize, the training: c.fit on the label column of the
\* classification type; self.classifier becomes c once fit has returned, and stays
\* what it was when the column is missing or fit raises
TrainClassifier(m, p, c, dataset, kwargs, env) ==
    IF TargetColumn(p) \notin LabelColumns
    THEN [m |-> m, p |-> p, raised |-> Some("KeyError")]
    ELSE LET f == Fit(m.heap[c], dataset, TargetColumn(p), FitOptions(kwargs), env)
         IN  IF f.raised # None
             THEN [m |-> m, p |-> p, raised |-> f.raised]
             ELSE [m |-> [m EXCEPT !.heap[c] = f.cell],
                   p |-> [p EXCEPT !.classifier = c],
                   raised |-> None]

\* XGBPipeline.self_optimize(dataset, **kwargs)
self_optimize(m, p, dataset, kwargs, env) ==
    LET pre == PrepareClassifier(m, p)
    IN  TrainClassifier(pre.m, p, pre.c, dataset, kwargs, env)

\* Optimize(pipeline).optimize(dataset, **optimize_params) of tpcp: self_optimize on a
\* clone of the pipeline, which becomes optimized_pipeline_
Optimize(m, p, dataset, optimize_params, env) ==
    LET c == PipelineClone(m, p)
    IN  self_optimize(c.m, c.p, dataset, optimize_params, env)

IsFitted(h, p) == h[p.classifier].booster # None

\* the fit options a fitted classifier was trained with
TrainedWith(cell) ==
    [early_stopping_rounds |-> The(cell.booster).early_stopping_rounds,
     callbacks |-> The(cell.booster).callbacks]

\* a run that predicts whatever the state of the classifier
run_unchecked(h, p, datapoint) ==
    [p |-> [p EXCEPT !.classification_ = Some(datapoint)], raised |-> None]

\* XGBPipeline.run(datapoint): the classifier predicts; XGBClassifier.predict raises
\* NotFittedError on an estimator that was not fitted
run(h, p, datapoint) ==
    IF ~IsFitted(h, p)
    THEN [p |-> p, raised |-> Some("NotFittedError")]
    ELSE [p |-> [p EXCEPT !.classification_ = Some(datapoint)], raised |-> None]

----------------------------------------------------------------------------
(* Cross-validation *)

\* folds all of n \div cv datapoints, the remainder left out
FoldSize_floor(k, n) == n \div cv

\* KFold(n_splits=cv) over the n datapoints, in order: the first n % cv folds hold one more
FoldSize(k, n) == (n \div cv) + (IF k <= n % cv THEN 1 ELSE 0)

RECURSIVE FoldStart(_, _)
FoldStart(k, n) == IF k = 1 THEN 1 ELSE FoldStart(k - 1, n) + FoldSize(k - 1, n)

Test(k) == { i \in Dataset : FoldStart(k, NSubjects) <= i
                             /\ i < FoldStart(k, NSubjects) + FoldSize(k, NSubjects) }

\* the positions of fold k's test split in a dataset of n datapoints
TestIndices(k, n) == { i \in 1..n : FoldStart(k, n) <= i /\ i < FoldStart(k, n) + FoldSize(k, n) }

\* fold k of KFold(n_splits=cv).split(d): the datapoints at the test positions, and
\* those at all other positions to train on
KFold(d, k) ==
    [train |-> { d[i] : i \in (1..Len(d)) \ TestIndices(k, Len(d)) },
     test  |-> { d[i] : i \in TestIndices(k, Len(d)) }]

Train(k) == Dataset \ Test(k)

RECURSIVE Sum(_)
Sum(s) == IF s = <<>> THEN 0 ELSE Head(s) + Sum(Tail(s))

\* np.mean
Mean(s) == Sum(s) \div Len(s)

\* the optimize_params objective gives to cross_validate
CVOptimizeParams ==
    [early_stopping_rounds |-> Some(early_stopping_rounds), callbacks |-> {"pruning_callback"}]

\* what a fold's training meets: out is the fold's outcome, sig whether the pruner
\* calls for a prune during this fold's fit
FoldEnv(out, sig) == [fit |-> IF out.kind = "raise" THEN "raise" ELSE "ok", prune |-> sig]

\* the folds k..cv of cross_validate(Optimize(p), dataset, cv, optimize_params), each on a
\* clone of the optimizer: acc gathers what each fold's optimize came to
RECURSIVE Folds(_, _, _, _, _, _)
Folds(m, p, k, outs, sig, acc) ==
    IF k > cv
    THEN [m |-> m, folds |-> acc]
    ELSE LET c == PipelineClone(m, p)
             o == Optimize(c.m, c.p, Train(k), CVOptimizeParams, FoldEnv(outs[k], sig = k))
         IN  Folds(o.m, p, k + 1, outs, sig, Append(acc, [p |-> o.p, raised |-> o.raised]))

\* objective(trial), from the clone of the template to the return: the mean of the folds'
\* test_mcc, nan when a fold's score is nan, or the exception of the first fold that raised
Objective(m, template, params, outs, sig) ==
    LET t      == TempPipeline(m, template, params)
        r      == Folds(t.m, t.temp, 1, outs, sig, <<>>)
        failed == { k \in 1..cv : r.folds[k].raised # None }
        first  == CHOOSE k \in failed : \A j \in failed : k <= j
        fitted == { r.folds[k].p.classifier : k \in (1..cv) \ failed }
    IN  [m      |-> r.m,
         template |-> t.template,
         fitted |-> fitted,
         fits   |-> { TrainedWith(r.m.heap[ref]) : ref \in fitted },
         ret    |-> IF failed # {}
                    THEN [kind |-> "raise", v |-> 0, err |-> The(r.folds[first].raised)]
                    ELSE IF \E k \in 1..cv : outs[k].kind = "nan"
                    THEN [kind |-> "nan", v |-> 0, err |-> ""]
                    ELSE [kind |-> "value", v |-> Mean([k \in 1..cv |-> outs[k].v]), err |-> ""]]

----------------------------------------------------------------------------
(* The study *)

\* the record study.ask() creates
NewTrial == [state |-> "RUNNING", params |-> None, value |-> None]

Completed(log) == { i \in DOMAIN log : log[i].state = "COMPLETE" }

Better(a, b) == IF direction = "maximize" THEN a >= b ELSE a <= b

\* study.best_trial: the completed trials no completed trial beats (which of several
\* with the same value the query returns is not determined)
BestTrials(log) ==
    { i \in Completed(log) : \A j \in Completed(log) : Better(The(log[i].value), The(log[j].value)) }

\* a study made anew at each call: the trials it held are gone
create_study_anew(log) == <<>>

\* optuna.create_study(..., load_if_exists=True): the study of that name in that store
\* with the trials it holds
create_study(log) == log

\* a record that keeps a value whatever the trial came to
Told_always_valued(t, r) ==
    [t EXCEPT !.state = IF r.kind = "value" THEN "COMPLETE" ELSE "FAIL", !.value = Some(r.v)]

\* a record written only for a trial whose objective returned
Told_on_return_only(t, r) ==
    IF r.kind = "value" THEN [t EXCEPT !.state = "COMPLETE", !.value = Some(r.v)]
    ELSE IF r.kind = "nan" THEN [t EXCEPT !.state = "FAIL"]
    ELSE t

\* the trial record after objective came to r
Told(t, r) ==
    IF r.kind = "value" THEN [t EXCEPT !.state = "COMPLETE", !.value = Some(r.v)]
    ELSE IF r.kind = "raise" /\ r.err = "TrialPruned" THEN [t EXCEPT !.state = "PRUNED"]
    ELSE [t EXCEPT !.state = "FAIL"]

\* study.optimize(objective, n_trials=1) catches nothing: an exception of objective
\* other than TrialPruned is raised again once the trial is recorded
Reraised(r) == r.kind = "raise" /\ r.err # "TrialPruned"

----------------------------------------------------------------------------
(* Spec: XGBOptuna.optimize, one process after another *)

Modality == <<"acc", "hr">>

\* the XGBOptuna object of a new process: a template pipeline with the default
\* classifier (reference 1)
XGBOptuna(modality, ct) ==
    [pipeline |-> XGBPipeline(modality, DefaultParams, 1, ct),
     modality |-> modality, classification_type |-> ct]

Init ==
    /\ store = <<>>
    /\ pc = "start"
    /\ \E ct \in ClassificationTypes : self = XGBOptuna(Modality, ct)
    /\ heap = (1 :> DefaultClassifier)
    /\ next_ref = 2
    /\ loaded = <<>>
    /\ trial = 0
    /\ n_run = 0
    /\ ret = None
    /\ prune_signal = FALSE
    /\ fold_refs = {}
    /\ fold_fits = {}
    /\ best_trial = None
    /\ optimized_pipeline_ = None
    /\ error = None
    /\ pipes = <<>> /\ in_fit = <<>> /\ last = None /\ seen = <<>> /\ fit_ok = {}
    /\ outcome = None
    /\ opts = <<>>
    /\ units = <<>> /\ splits = None

\* what a process holds in memory is gone with it; the next one starts afresh
Forget ==
    /\ self' = XGBOptuna(self.modality, self.classification_type)
    /\ heap' = (1 :> DefaultClassifier)
    /\ next_ref' = 2
    /\ loaded' = <<>>
    /\ trial' = 0
    /\ n_run' = 0
    /\ ret' = None
    /\ prune_signal' = FALSE
    /\ fold_refs' = {}
    /\ fold_fits' = {}
    /\ best_trial' = None
    /\ optimized_pipeline_' = None
    /\ error' = None

\* optuna.create_study(...): the study is created, or loaded with its trials; loaded
\* keeps the log as the process found it
CreateStudy ==
    /\ pc = "start"
    /\ store' = create_study(store)
    /\ loaded' = store
    /\ pc' = "ask"
    /\ UNCHANGED <<self, heap, next_ref, trial, n_run, ret, prune_signal, fold_refs, fold_fits,
                   best_trial, optimized_pipeline_, error>>
    /\ UNCHANGED <<pvars, opts, cvars>>

\* study.optimize: the next trial is created in the store, in state RUNNING
Ask ==
    /\ pc = "ask"
    /\ n_run < n_trials
    /\ store' = Append(store, NewTrial)
    /\ trial' = Len(store) + 1
    /\ pc' = "suggest"
    /\ UNCHANGED <<self, heap, next_ref, loaded, n_run, ret, prune_signal, fold_refs, fold_fits,
                   best_trial, optimized_pipeline_, error>>
    /\ UNCHANGED <<pvars, opts, cvars>>

\* objective: the trial.suggest_* calls, each value written to the trial's record
Suggest ==
    /\ pc = "suggest"
    /\ \E params \in Suggestions : store' = [store EXCEPT ![trial].params = Some(params)]
    /\ pc' = "cross_validate"
    /\ UNCHANGED <<self, heap, next_ref, loaded, trial, n_run, ret, prune_signal, fold_refs, fold_fits,
                   best_trial, optimized_pipeline_, error>>
    /\ UNCHANGED <<pvars, opts, cvars>>

\* objective: the clone of the template, the pruning callback, cross_validate over the
\* cv folds and the mean of their scores; the folds' pipelines end with the call
CrossValidate ==
    /\ pc = "cross_validate"
    /\ \E outs \in FoldVectors, sig \in PruneAt :
         LET o == Objective([heap |-> heap, next |-> next_ref], self.pipeline,
                            The(store[trial].params), outs, sig)
         IN  /\ ret' = Some(o.ret)
             /\ prune_signal' = (sig # 0)
             /\ fold_refs' = fold_refs \cup o.fitted
             /\ fold_fits' = o.fits
             /\ next_ref' = o.m.next
             /\ self' = [self EXCEPT !.pipeline = o.template]
             /\ heap' = [r \in DOMAIN heap |-> o.m.heap[r]]
    /\ pc' = "tell"
    /\ UNCHANGED <<store, loaded, trial, n_run, best_trial, optimized_pipeline_, error>>
    /\ UNCHANGED <<pvars, opts, cvars>>

\* study.optimize: the trial's state and value are recorded; an exception of the
\* objective is then raised to the caller of optimize
Tell ==
    /\ pc = "tell"
    /\ store' = [store EXCEPT ![trial] = Told(@, The(ret))]
    /\ n_run' = n_run + 1
    /\ IF Reraised(The(ret))
       THEN pc' = "raised" /\ error' = Some(The(ret).err)
       ELSE pc' = (IF n_run + 1 < n_trials THEN "ask" ELSE "best_params") /\ error' = error
    /\ UNCHANGED <<self, heap, next_ref, loaded, trial, ret, prune_signal, fold_refs, fold_fits,
                   best_trial, optimized_pipeline_>>
    /\ UNCHANGED <<pvars, opts, cvars>>

\* best_parameters = study.best_params, with a new XGBClassifier of these parameters;
\* study.best_params raises ValueError when no trial is completed
BestParams ==
    /\ pc = "best_params"
    /\ IF Completed(store) = {}
       THEN /\ pc' = "raised"
            /\ error' = Some("NoCompletedTrials")
            /\ UNCHANGED <<best_trial, heap, next_ref>>
       ELSE /\ \E b \in BestTrials(store) : best_trial' = Some(b)
            /\ LET m == New([heap |-> heap, next |-> next_ref],
                            XGBClassifier(IF self.classification_type = "binary"
                                          THEN "binary:logistic" ELSE "default",
                                          store[The(best_trial')].params, None))
               IN  heap' = m.heap /\ next_ref' = m.next
            /\ pc' = "refit"
            /\ error' = error
    /\ UNCHANGED <<store, self, loaded, trial, n_run, ret, prune_signal, fold_refs, fold_fits,
                   optimized_pipeline_>>
    /\ UNCHANGED <<pvars, opts, cvars>>

\* a clone of the template gets the best parameters and the new classifier, and
\* Optimize(...).optimize(dataset) trains it on the whole dataset
Refit ==
    /\ pc = "refit"
    /\ \E fit \in {"ok", "raise"} :
         LET best == [params |-> The(store[The(best_trial)].params), classifier |-> next_ref - 1]
             t    == TempPipeline([heap |-> heap, next |-> next_ref], self.pipeline, best.params)
             p    == [t.temp EXCEPT !.classifier = best.classifier]
             o    == Optimize(t.m, p, Dataset, [early_stopping_rounds |-> None, callbacks |-> {}],
                              [fit |-> fit, prune |-> FALSE])
             live == {self.pipeline.classifier, o.p.classifier}
         IN  /\ next_ref' = o.m.next
             /\ self' = [self EXCEPT !.pipeline = t.template]
             /\ IF o.raised # None
                THEN /\ pc' = "raised"
                     /\ error' = o.raised
                     /\ heap' = [r \in {self.pipeline.classifier} |-> o.m.heap[r]]
                     /\ UNCHANGED optimized_pipeline_
                ELSE /\ pc' = "done"
                     /\ optimized_pipeline_' = Some(o.p)
                     /\ heap' = [r \in live |-> o.m.heap[r]]
                     /\ error' = error
    /\ UNCHANGED <<store, loaded, trial, n_run, ret, prune_signal, fold_refs, fold_fits, best_trial>>
    /\ UNCHANGED <<pvars, opts, cvars>>

\* the process is killed: what it held in memory is gone, the store stays
Kill ==
    /\ pc \in {"ask", "suggest", "cross_validate", "tell", "best_params", "refit"}
    /\ pc' = "killed"
    /\ Forget
    /\ UNCHANGED <<store, pvars, opts, cvars>>

\* a new process on the same study
NewProcess ==
    /\ pc \in {"done", "raised", "killed"}
    /\ Len(store) < MaxTrials
    /\ pc' = "start"
    /\ Forget
    /\ UNCHANGED <<store, pvars, opts, cvars>>

Next ==
    \/ CreateStudy
    \/ Ask
    \/ Suggest
    \/ CrossValidate
    \/ Tell
    \/ BestParams
    \/ Refit
    \/ Kill
    \/ NewProcess

Spec == Init /\ [][Next]_vars

----------------------------------------------------------------------------
(* Claims on the search (Spec) *)

Terminal == {"COMPLETE", "PRUNED", "FAIL"}

\* study.optimize has ended in this call, by return or by exception
OptimizeEnded == pc \in {"best_params", "refit", "done", "raised"}

\* C1: a call that finds N trials in the persisted log and runs its n_trials (1) new
\* trials leaves N + n_trials trials, the first N of them as they were: no earlier
\* trial is run again, doubled or lost.
C1_ResumeKeepsPriorTrials ==
    /\ pc \notin {"start", "killed"} =>
          /\ Len(store) >= Len(loaded)
          /\ SubSeq(store, 1, Len(loaded)) = loaded
    /\ OptimizeEnded => Len(store) = Len(loaded) + n_trials

\* C1's case: a call that found two trials has finished, and holds three
C1_Witness ==
    /\ pc = "done"
    /\ Len(loaded) = 2
    /\ Len(store) = 3
    /\ loaded[1].state = "RUNNING"

\* C2: in every state of the study, the trial best_trial returns, and the one
\* optimize has read as best, is a completed one whose value no completed trial of
\* the study exceeds; a pruned or failed trial is never the best, in whatever order
\* the trials ended.
C2_BestIsMaxCompleted ==
    \A b \in BestTrials(store) \cup Elements(best_trial) :
        /\ store[b].state = "COMPLETE"
        /\ \A j \in DOMAIN store :
              store[j].state = "COMPLETE" => The(store[b].value) >= The(store[j].value)

\* C2's case: the best trial is followed by a completed trial of lower value and
\* the study holds a failed trial
C2_Witness ==
    /\ best_trial # None
    /\ \E j \in DOMAIN store :
          /\ j > The(best_trial)
          /\ store[j].state = "COMPLETE"
          /\ The(store[j].value) < The(store[The(best_trial)].value)
    /\ \E j \in DOMAIN store : store[j].state = "FAIL"

\* C3: when optimize has returned, optimized_pipeline_ is fitted, on the whole
\* dataset, with exactly the hyperparameters of the study's best trial, and its
\* classifier is an object of its own, none of those fitted in a fold.
C3_RefitOnBest ==
    pc = "done" =>
        /\ optimized_pipeline_ # None
        /\ best_trial # None
        /\ The(best_trial) \in BestTrials(store)
        /\ LET p == The(optimized_pipeline_)
               b == store[The(best_trial)]
           IN  /\ p.classifier \in DOMAIN heap
               /\ IsFitted(heap, p)
               /\ The(heap[p.classifier].booster).data = Dataset
               /\ Some(p.params) = b.params
               /\ The(heap[p.classifier].booster).params = b.params
               /\ p.classifier \notin fold_refs
               /\ p.classifier # self.pipeline.classifier

\* C3's case: optimize has returned after a cross-validation that fitted classifiers,
\* and the best trial is one of an earlier call
C3_Witness ==
    /\ pc = "done"
    /\ fold_refs # {}
    /\ The(best_trial) # trial
    /\ The(optimized_pipeline_).params # DefaultParams

\* C4: with no completed trial in the study once the trials have run, the caller of
\* optimize gets NoCompletedTrials, and no pipeline.
C4_ZeroCompletedIsNoCompletedTrials ==
    (pc \in {"raised", "done"} /\ Completed(store) = {}) =>
        /\ error = Some("NoCompletedTrials")
        /\ optimized_pipeline_ = None

\* C5: a failure inside a trial is recorded as the trial's failed state and does not
\* end the search: the finalize step is still reached, and what reaches the caller
\* is NoCompletedTrials at most.
C5_TrialFailureContained ==
    (trial # 0 /\ store[trial].state = "FAIL" /\ pc = "raised" /\ best_trial = None) =>
        error = Some("NoCompletedTrials")

\* C6: whenever the pruner calls for a prune of the running trial during a fit, the
\* trial ends pruned, without a value, and is never the best.
C6_PruneSignalEndsTrialPruned ==
    (prune_signal /\ trial # 0 /\ store[trial].state # "RUNNING") =>
        /\ store[trial].state = "PRUNED"
        /\ store[trial].value = None
        /\ best_trial # Some(trial)

\* C7: a kill at any point leaves the trial in flight either recorded in full or
\* absent; so a process that finds two finished trials after a kill and runs one
\* more leaves exactly three records.
C7_AppendAtomicUnderKill ==
    /\ pc = "killed" => \A i \in DOMAIN store : store[i].state \in Terminal
    /\ (OptimizeEnded /\ Cardinality({ i \in DOMAIN loaded : loaded[i].state \in Terminal }) = 2)
          => Len(store) = 3

\* C14: a trial is created running; its record changes state at most once, from
\* running to completed, pruned or failed, and a record in one of these states never
\* changes again; a trial has a value exactly when it is completed.
C14_TrialStateMachine ==
    /\ [](\A i \in DOMAIN store :
            /\ store[i].state \in {"RUNNING"} \cup Terminal
            /\ store[i].value # None <=> store[i].state = "COMPLETE")
    /\ [][/\ Len(store') >= Len(store)
          /\ \A i \in DOMAIN store' :
                IF i \in DOMAIN store
                THEN /\ store[i].state \in Terminal => store'[i] = store[i]
                     /\ store'[i].state # store[i].state =>
                           store[i].state = "RUNNING" /\ store'[i].state \in Terminal
                ELSE store'[i] = [state |-> "RUNNING", params |-> None, value |-> None]]_vars

\* C14's case: the study holds a completed trial, a failed one and one left running
\* by a killed process, and a later call has returned
C14_Witness ==
    /\ pc = "done"
    /\ \E i, j, k \in DOMAIN store :
          /\ store[i].state = "COMPLETE"
          /\ store[j].state = "FAIL"
          /\ store[k].state = "RUNNING"

\* C15: the classifier of every fold of a cross-validation is trained with the fit
\* options objective gave to cross_validate: the early-stopping rounds and the
\* trial's pruning callback.
C15_FoldFitsGetOptions ==
    \A f \in fold_fits :
        /\ f.early_stopping_rounds = Some(early_stopping_rounds)
        /\ "pruning_callback" \in f.callbacks

\* the steps of a call in which classifiers are trained or made
FitStep ==
    \/ CrossValidate
    \/ BestParams
    \/ Refit

\* FitStep can be taken exactly at these points of a call
FitStepEnabled == pc \in {"cross_validate", "best_params", "refit"}

\* SpecLive: a call of optimize that is not killed takes its next step, and every fit
\* returns or raises (CrossValidate and Refit are steps that end).  The last conjunct
\* is WF_vars(FitStep) with FitStepEnabled written for ENABLED <<FitStep>>_vars.
SpecLive ==
    /\ Spec
    /\ WF_vars(CreateStudy)
    /\ WF_vars(Ask)
    /\ WF_vars(Suggest)
    /\ WF_vars(Tell)
    /\ ([]<>(~FitStepEnabled) \/ []<><<FitStep>>_vars)

\* C16: a call of optimize that is not killed ends, by return or by exception, and
\* when it has ended every trial it started is completed, pruned or failed: none of
\* them is left running in the persisted log.
C16_CallEndsWithTrialsTerminal ==
    /\ [](pc \in {"done", "raised"} =>
            /\ Len(store) > Len(loaded)
            /\ \A i \in DOMAIN store : i > Len(loaded) => store[i].state \in Terminal)
    /\ (pc = "start") ~> (pc \in {"done", "raised", "killed"})

\* C16's case: a call that found a trial left running by a killed process has ended
\* by the exception of a fold, its own trial failed
C16_Witness ==
    /\ pc = "raised"
    /\ error = Some("TrainingError")
    /\ Len(loaded) = 1
    /\ loaded[1].state = "RUNNING"
    /\ Len(store) = 2
    /\ store[2].state = "FAIL"

\* C17: at every point of a call of optimize, after the trials and after the refit,
\* ended well or not, the template pipeline has the hyperparameters and the
\* classifier it was constructed with, the classifier in the state it had.
C17_TemplateUnchanged ==
    /\ self.pipeline = XGBPipeline(Modality, DefaultParams, 1, self.classification_type)
    /\ heap[self.pipeline.classifier] = DefaultClassifier

\* C17's case: optimize has returned after a trial and the refit, with a pipeline of
\* other hyperparameters than the template's
C17_Witness ==
    /\ pc = "done"
    /\ fold_refs # {}
    /\ The(optimized_pipeline_).params # self.pipeline.params
    /\ IsFitted(heap, The(optimized_pipeline_))

----------------------------------------------------------------------------
(* SpecPipe: a template pipeline, clones of it, and their operations in any  *)
(* order; a self_optimize is two steps, so that fits of several pipelines    *)
(* overlap as those of folds run in parallel do.                             *)

\* the classification types of the pipelines: one has no column in the label table
PipeClassificationTypes == ClassificationTypes \cup {"3stage"}

\* the search stands still in SpecPipe and SpecKey
SearchIdle ==
    /\ store = <<>> /\ pc = "idle" /\ self = None /\ loaded = <<>> /\ trial = 0 /\ n_run = 0
    /\ ret = None /\ prune_signal = FALSE /\ fold_refs = {} /\ fold_fits = {} /\ best_trial = None
    /\ optimized_pipeline_ = None /\ error = None

\* a pipeline with the state of its classifier: what its predictions rest on
Snapshot(h, p) == [p |-> p, c |-> h[p.classifier]]

PipeInit ==
    /\ SearchIdle
    /\ opts = <<>>
    /\ \E ct \in PipeClassificationTypes :
          pipes = <<XGBPipeline(Modality, DefaultParams, 1, ct)>>
    /\ heap = (1 :> DefaultClassifier)
    /\ next_ref = 2
    /\ in_fit = <<None>>
    /\ seen = <<Snapshot(heap, pipes[1])>>
    /\ fit_ok = {}
    /\ last = None
    /\ outcome = None
    /\ units = <<>> /\ splits = None

\* the classifier objects a pipeline or a running fit holds
Live(ps, fits) ==
    { ps[i].classifier : i \in DOMAIN ps } \cup { The(fits[i]) : i \in { k \in DOMAIN fits : fits[k] # None } }

\* pipeline.clone(), and pipeline.clone().set_params(**params) as objective and the
\* refit make their pipelines
PClone(i) ==
    /\ Len(pipes) < MaxPipes
    /\ next_ref <= MaxRefs
    /\ \E params \in Suggestions \cup {pipes[i].params} :
         LET c == PipelineClone([heap |-> heap, next |-> next_ref], pipes[i])
             n == Len(pipes) + 1
         IN  /\ pipes' = Append(pipes, set_params(c.p, params))
             /\ heap' = c.m.heap
             /\ next_ref' = c.m.next
             /\ in_fit' = Append(in_fit, None)
             /\ seen' = Append(seen, Snapshot(c.m.heap, set_params(c.p, params)))
             /\ fit_ok' = IF i \in fit_ok THEN fit_ok \cup {n} ELSE fit_ok
    /\ last' = None
    /\ outcome' = None
    /\ UNCHANGED <<svars, opts, cvars>>

\* self_optimize begins: the clone of the classifier with the hyperparameters
PFitBegin(i) ==
    /\ in_fit[i] = None
    /\ next_ref <= MaxRefs
    /\ LET pre == PrepareClassifier([heap |-> heap, next |-> next_ref], pipes[i])
       IN  /\ heap' = pre.m.heap
           /\ next_ref' = pre.m.next
           /\ in_fit' = [in_fit EXCEPT ![i] = Some(pre.c)]
    /\ last' = None
    /\ outcome' = None
    /\ UNCHANGED <<svars, opts, cvars, pipes, seen, fit_ok>>

\* self_optimize ends: the training has returned or raised
PFitEnd(i) ==
    /\ in_fit[i] # None
    /\ \E fit \in {"ok", "raise"} :
         LET r == TrainClassifier([heap |-> heap, next |-> next_ref], pipes[i], The(in_fit[i]),
                                  Dataset, CVOptimizeParams, [fit |-> fit, prune |-> FALSE])
             ps == [pipes EXCEPT ![i] = r.p]
             fs == [in_fit EXCEPT ![i] = None]
         IN  /\ pipes' = ps
             /\ in_fit' = fs
             /\ heap' = [ref \in Live(ps, fs) |-> r.m.heap[ref]]
             /\ seen' = [seen EXCEPT ![i] = Snapshot(r.m.heap, r.p)]
             /\ fit_ok' = IF r.raised = None THEN fit_ok \cup {i} ELSE fit_ok
             /\ outcome' = Some([op |-> "self_optimize", pipe |-> i, raised |-> r.raised])
    /\ last' = None
    /\ UNCHANGED <<svars, opts, cvars, next_ref>>

\* pipeline.run(datapoint), on the first datapoint; last keeps the pipeline and what
\* the call raised
PRun(i) ==
    /\ LET r == run(heap, pipes[i], 1)
       IN  /\ pipes' = [pipes EXCEPT ![i] = r.p]
           /\ seen' = [seen EXCEPT ![i] = Snapshot(heap, r.p)]
           /\ last' = Some([pipe |-> i, raised |-> r.raised])
    /\ outcome' = None
    /\ UNCHANGED <<svars, opts, cvars, heap, next_ref, in_fit, fit_ok>>

\* pipeline.set_params(**params) on a pipeline at hand: the values are stored as given
PSetParams(i) ==
    /\ \E params \in Configurations :
         LET p == set_params(pipes[i], params)
         IN  /\ pipes' = [pipes EXCEPT ![i] = p]
             /\ seen' = [seen EXCEPT ![i] = Snapshot(heap, p)]
             /\ outcome' = Some([op |-> "set_params", pipe |-> i, raised |-> None])
    /\ last' = None
    /\ UNCHANGED <<svars, opts, cvars, heap, next_ref, in_fit, fit_ok>>

Clone == \E i \in DOMAIN pipes : PClone(i)

FitBegin == \E i \in DOMAIN pipes : PFitBegin(i)

FitEnd == \E i \in DOMAIN pipes : PFitEnd(i)

Run == \E i \in DOMAIN pipes : PRun(i)

PipeNext ==
    \/ Clone
    \/ FitBegin
    \/ FitEnd
    \/ Run

SpecPipe == PipeInit /\ [][PipeNext]_vars

----------------------------------------------------------------------------
(* Claims on the pipelines (SpecPipe) *)

\* C8: two pipelines made by clone() never hold the same classifier object, a running
\* fit trains an object no pipeline holds, and every pipeline and its classifier are
\* as the pipeline's own last operation left them, however the fits of the others
\* fall in between: a fit of one changes neither the classifier nor the predictions
\* of another.
C8_ClonesShareNoClassifier ==
    /\ \A i, j \in DOMAIN pipes : i # j => pipes[i].classifier # pipes[j].classifier
    /\ \A i, j \in DOMAIN pipes :
          in_fit[i] # None =>
              /\ The(in_fit[i]) # pipes[j].classifier
              /\ (j # i /\ in_fit[j] # None) => The(in_fit[i]) # The(in_fit[j])
    /\ \A i \in DOMAIN pipes : seen[i] = Snapshot(heap, pipes[i])

\* C8's case: of two clones whose fits overlapped, one has been fitted and has
\* predicted while the fit of the other, begun earlier, still runs
C8_Witness ==
    /\ Len(pipes) = 3
    /\ in_fit[3] # None
    /\ IsFitted(heap, pipes[2])
    /\ The(in_fit[3]) < pipes[2].classifier
    /\ pipes[2].classification_ # None
    /\ ~IsFitted(heap, pipes[1])

\* C9: a pipeline with no successful fit behind it has no classification result, and
\* a run of it raises NotFittedError; a run succeeds only after a fit that succeeded.
C9_RunNeedsFit ==
    /\ \A i \in DOMAIN pipes : i \notin fit_ok => pipes[i].classification_ = None
    /\ (last # None /\ The(last).pipe \notin fit_ok) =>
          The(last).raised = Some("NotFittedError")
    /\ (last # None /\ The(last).raised = None) => The(last).pipe \in fit_ok

\* C9's case: a run of a clone that was never fitted has raised NotFittedError, while
\* another pipeline, fitted, holds a result
C9_Witness ==
    /\ last # None
    /\ The(last).pipe = 2
    /\ The(last).raised = Some("NotFittedError")
    /\ 2 \notin fit_ok
    /\ \E i \in DOMAIN pipes : i \in fit_ok /\ pipes[i].classification_ # None

\* C12: self_optimize trains on the column "sleep" when the classification type is
\* "binary" and on the column named as the type otherwise; when the label table has
\* no such column the call fails (KeyError, the code's UnknownTargetColumn) and the
\* pipeline is not fitted.
C12_TargetColumnByType ==
    /\ \A i \in DOMAIN pipes :
          LET ct == pipes[i].classification_type
              column == IF ct = "binary" THEN "sleep" ELSE ct
          IN  /\ IsFitted(heap, pipes[i]) =>
                    /\ The(heap[pipes[i].classifier].booster).target = column
                    /\ column \in LabelColumns
              /\ column \notin LabelColumns => ~IsFitted(heap, pipes[i]) /\ i \notin fit_ok
    /\ (outcome # None /\ The(outcome).op = "self_optimize") =>
          LET ct == pipes[The(outcome).pipe].classification_type
              column == IF ct = "binary" THEN "sleep" ELSE ct
          IN  The(outcome).raised = Some("KeyError") <=> column \notin LabelColumns

\* C12's case: a self_optimize of a clone whose classification type has no column in
\* the label table has failed
C12_Witness ==
    /\ outcome # None
    /\ The(outcome).op = "self_optimize"
    /\ The(outcome).pipe = 2
    /\ The(outcome).raised = Some("KeyError")
    /\ pipes[2].classification_type \notin LabelColumns \cup {"binary"}

\* C18: a self_optimize whose training raises leaves the pipeline and the classifier
\* it holds exactly as they were, untrained or trained as before: self.classifier is
\* replaced only by a classifier whose fit has returned.
C18_FailedFitKeepsClassifier ==
    [][(outcome' # None /\ The(outcome').op = "self_optimize" /\ The(outcome').raised # None) =>
          LET i == The(outcome').pipe
          IN  /\ pipes'[i].classifier = pipes[i].classifier
              /\ pipes'[i] = pipes[i]
              /\ heap'[pipes[i].classifier] = heap[pipes[i].classifier]]_vars

\* C18's case: the training of a pipeline fitted before has raised, and the pipeline
\* holds the classifier of the earlier fit
C18_Witness ==
    /\ outcome # None
    /\ The(outcome).op = "self_optimize"
    /\ The(outcome).raised = Some("TrainingError")
    /\ IsFitted(heap, pipes[The(outcome).pipe])
    /\ The(outcome).pipe \in fit_ok

----------------------------------------------------------------------------
(* SpecConf: one pipeline that is configured, fitted and run in any order *)

SetParams == \E i \in DOMAIN pipes : PSetParams(i)

ConfNext ==
    \/ SetParams
    \/ FitBegin
    \/ FitEnd
    \/ Run

SpecConf == PipeInit /\ [][ConfNext]_vars

\* C13: set_params succeeds only with every value in the range declared for its
\* parameter, and fails with InvalidHyperparameter otherwise.
C13_ConfigureValidates ==
    (outcome # None /\ The(outcome).op = "set_params") =>
        /\ The(outcome).raised = None => InRange(pipes[The(outcome).pipe].params)
        /\ The(outcome).raised # None =>
              /\ The(outcome).raised = Some("InvalidHyperparameter")
              /\ ~InRange(pipes[The(outcome).pipe].params)

\* the part of C13 the code keeps: set_params leaves the classifier of the pipeline,
\* fitted or not, as it was
C13_ConfigureKeepsTrainingState ==
    [][(outcome' # None /\ The(outcome').op = "set_params") =>
          LET i == The(outcome').pipe
          IN  /\ pipes'[i].classifier = pipes[i].classifier
              /\ heap' = heap]_vars

----------------------------------------------------------------------------
(* SpecKey: two XGBOptuna objects and the studies they resolve to *)

RECURSIVE join(_, _)
\* sep.join(list)
join(sep, list) ==
    IF list = <<>> THEN ""
    ELSE IF Len(list) = 1 THEN list[1]
    ELSE list[1] \o sep \o join(sep, Tail(list))

\* get_db_path()
db_path == "db"

\* the study_name given to optuna.create_study
study_name(o) == "XGBoostOptuna" \o join("|", o.modality)

\* the storage given to optuna.create_study
storage(o) ==
    "sqlite:////" \o db_path \o "/xgb_" \o join("_", o.modality) \o "_"
        \o o.classification_type \o ".db"

\* the study an optimizer's create_study opens: the study of that name in that store
Study(o) == [storage |-> storage(o), study_name |-> study_name(o)]

ModalityNames == {"acc", "hr", "acc_hr"}

ModalityLists == UNION { [1..n -> ModalityNames] : n \in 0..MaxModalities }

KeyInit ==
    /\ SearchIdle
    /\ pipes = <<>> /\ in_fit = <<>> /\ last = None /\ seen = <<>> /\ fit_ok = {}
    /\ outcome = None
    /\ units = <<>> /\ splits = None
    /\ heap = <<>> /\ next_ref = 1
    /\ opts \in [1..2 -> [modality : ModalityLists, classification_type : ClassificationTypes,
                          study : {None}]]

\* XGBOptuna.optimize of optimizer k reaches create_study
Resolve(k) ==
    /\ opts[k].study = None
    /\ opts' = [opts EXCEPT ![k].study = Some(Study(opts[k]))]
    /\ UNCHANGED <<svars, heap, next_ref, pvars, cvars>>

ResolveStudy == \E k \in DOMAIN opts : Resolve(k)

KeyNext == ResolveStudy

SpecKey == KeyInit /\ [][KeyNext]_vars

Count(x, list) == Cardinality({ i \in DOMAIN list : list[i] = x })

IsPermutation(s, t) ==
    /\ Len(s) = Len(t)
    /\ \A x \in ModalityNames : Count(x, s) = Count(x, t)

\* C10: two optimizers whose modality lists are permutations of each other and whose
\* classification types are equal resolve to the same study, and two that differ in
\* the set of modalities or in the classification type resolve to different studies.
C10_StudyKeyOfSortedModalities ==
    (opts[1].study # None /\ opts[2].study # None) =>
        /\ (IsPermutation(opts[1].modality, opts[2].modality)
              /\ opts[1].classification_type = opts[2].classification_type)
                 => opts[1].study = opts[2].study
        /\ (Elements(opts[1].modality) # Elements(opts[2].modality)
              \/ opts[1].classification_type # opts[2].classification_type)
                 => opts[1].study # opts[2].study

\* the half of C10 the code keeps: optimizers that differ in the set of modalities
\* or in the classification type never resolve to the same study
C10_DistinctKeysDistinctStudies ==
    (opts[1].study # None /\ opts[2].study # None) =>
        ((Elements(opts[1].modality) # Elements(opts[2].modality)
              \/ opts[1].classification_type # opts[2].classification_type)
                 => opts[1].study # opts[2].study)

----------------------------------------------------------------------------
(* SpecSplit: cross_validate(cv=5) splits a dataset into its folds.  A dataset *)
(* is a tpcp Dataset: one row per datapoint (a participant), no row twice.     *)

Datapoints == 1..MaxUnits

RECURSIVE InOrder(_)
\* the datapoints of a set as the rows of a dataset, in the order of the index
InOrder(S) ==
    IF S = {} THEN <<>>
    ELSE LET x == CHOOSE y \in S : \A z \in S : y <= z
         IN  <<x>> \o InOrder(S \ {x})

SplitInit ==
    /\ SearchIdle
    /\ pipes = <<>> /\ in_fit = <<>> /\ last = None /\ seen = <<>> /\ fit_ok = {}
    /\ outcome = None
    /\ opts = <<>>
    /\ heap = <<>> /\ next_ref = 1
    /\ \E S \in SUBSET Datapoints : units = InOrder(S)
    /\ splits = None

\* cross_validate takes the splitter of cv=5, KFold(5); KFold.split raises ValueError
\* for a dataset of fewer datapoints than folds
Split ==
    /\ splits = None
    /\ splits' = Some([raised |-> IF Len(units) < cv THEN Some("ValueError") ELSE None,
                       folds |-> <<>>])
    /\ UNCHANGED <<svars, heap, next_ref, pvars, opts, units>>

\* the splitter yields the next fold
DrawFold ==
    /\ splits # None
    /\ The(splits).raised = None
    /\ Len(The(splits).folds) < cv
    /\ splits' = Some([The(splits) EXCEPT
                         !.folds = Append(@, KFold(units, Len(The(splits).folds) + 1))])
    /\ UNCHANGED <<svars, heap, next_ref, pvars, opts, units>>

SplitNext ==
    \/ Split
    \/ DrawFold

SpecSplit == SplitInit /\ [][SplitNext]_vars

\* C11: a dataset of at least cv datapoints is split without error into cv folds; no
\* datapoint is in both the train and the test split of a fold, train and test of a
\* fold make up the dataset, and once the cv folds are drawn every datapoint is in the
\* test split of exactly one of them.
C11_FoldsPartitionUnits ==
    (splits # None /\ Len(units) >= cv) =>
        LET folds == The(splits).folds
        IN  /\ The(splits).raised = None
            /\ Len(folds) <= cv
            /\ \A k \in DOMAIN folds :
                  /\ folds[k].train \cap folds[k].test = {}
                  /\ folds[k].train \cup folds[k].test = Elements(units)
                  /\ folds[k].test # {}
            /\ \A j, k \in DOMAIN folds : j # k => folds[j].test \cap folds[k].test = {}
            /\ Len(folds) = cv =>
                  \A u \in Elements(units) :
                      Cardinality({ k \in DOMAIN folds : u \in folds[k].test }) = 1

\* C11's case: all cv folds of a dataset whose size is no multiple of cv are drawn
C11_Witness ==
    /\ splits # None
    /\ Len(units) > cv
    /\ Len(units) % cv # 0
    /\ Len(The(splits).folds) = cv

====
